---- MODULE Spec2Model ----
(***************************************************************************)
(* Model of the chunked OCR pipeline of ocr-app-v1.                        *)
(*                                                                         *)
(*   Spec     one run of OCRService.process_document (app/services/ocr.py) *)
(*            over a document of total_pages pages: the chunk generator,   *)
(*            the memory checks, the retry loop around the Document AI     *)
(*            call, the Vision AI call, the merge, the save and the        *)
(*            cleanup.                                                     *)
(*   FairSpec Spec with weak fairness on the job's steps (every awaited    *)
(*            call eventually returns, raises or times out).               *)
(*   SpecAgg  the DocumentSaver result log (append_result,                 *)
(*            save_final_results) and _safe_merge_results applied to       *)
(*            arbitrary lists of chunk results.                            *)
(*   SpecService  successive requests on the one global OCRService         *)
(*            (app/api/routes.py) under the request timeout of the         *)
(*            middleware (app/main.py).                                    *)
(*   SpecCache  CacheManager (app/services/cache_manager.py) called by one *)
(*            task: get, set, invalidate, cleanup_old_entries, step by     *)
(*            step, with a clock.                                          *)
(*   SpecCacheConc  get and set called by concurrent tasks, every set of a *)
(*            key writing the same value.                                  *)
(*   SpecOverlap  two overlapping requests on the one global OCRService:   *)
(*            its working directory and each request's temp files.         *)
(*   SpecKey  computations of the cache key (CacheManager._get_hash) for   *)
(*            different documents, chunk indices and times.                *)
(*   SpecAggKill  SpecAgg where the process can be killed during an        *)
(*            append_result, leaving a partial last line in the log.       *)
(*   SpecSave  overlapping calls of DocumentSaver.save_final_results and   *)
(*            the artifacts they write.                                    *)
(*   SpecSplit  PDFSplitter.split_pdf (app/services/pdf_splitter.py), its  *)
(*            consumer and its temp files.                                 *)
(*   SpecDownload  requests to the download_file route and the file each   *)
(*            one returns.                                                 *)
(***************************************************************************)
EXTENDS Integers, Sequences, FiniteSets, TLC

\* ------------------------------------------------------------------ bounds
MaxPages == 3          \* documents of 0..MaxPages pages
MaxChunkPages == 2     \* OCRService(max_chunk_pages = 1..MaxChunkPages)
MaxTextSize == 3       \* OCRService(max_text_size = 1..MaxTextSize)
MaxLog == 3            \* at most MaxLog calls of append_result (SpecAgg)
MaxOrd == 3            \* chunk ordinals 1..MaxOrd of the results appended (SpecAgg)
MaxJobs == 2           \* calls of process_document on one service (SpecService)
MaxTime == 3           \* datetime.now() runs over 1..MaxTime hours (SpecCache)
MaxTTL == 1            \* CacheManager(ttl_hours = 1..MaxTTL)
MaxReqChunks == 2      \* chunks of each overlapping request (SpecOverlap)
MaxComputed == 2       \* cache keys computed and compared (SpecKey)
MaxSplits == 2         \* calls of split_pdf on one PDFSplitter (SpecSplit)
MaxPathLen == 3        \* segments of a requested file_path (SpecDownload)

\* ------------------------------------------------------- program constants
max_retries == 3

VARIABLES
    pc,                 \* position of process_document
    valid_pdf,          \* input: PdfReader can parse the content
    total_pages,        \* input: len(reader.pages)
    max_chunk_pages,    \* self.max_chunk_pages
    max_text_size,      \* self.max_text_size
    start,              \* loop variable of the chunk generator
    chunk,              \* ordinal (1-based) of the chunk held by the loop, 0 = none
    attempt,            \* loop variable of _process_chunk_with_timeout
    outcomes,           \* outcomes of the attempts made on the current chunk
    waits,              \* delay slept before each retry of the current chunk
    last_wait,          \* delay slept since the last failed attempt
    in_flight,          \* capability invocations awaited by the job
    abandoned,          \* timed-out invocations still running in a worker thread
    processed_results,  \* processed_results of process_document
    chunks_processed,   \* chunks_processed of process_document
    n_dispatched,       \* chunks handed to _process_chunk_with_timeout
    n_none,             \* chunks for which _process_chunk_with_timeout returned None
    unsafe_at,          \* ordinal of the chunk whose pre-dispatch memory check failed, 0 = none
    gen_sleeps,         \* sleeps of the generator before the current chunk
    temp_files,         \* per-chunk NamedTemporaryFile's that exist
    temp_dir,           \* self.temp_dir exists
    vision_temp_dir,    \* temp_dir of analyze_document exists
    vision_failed,      \* analyze_document raised
    final_result,       \* final_result of process_document
    exc,                \* exception propagating out of process_document
    outcome,            \* "none" | "returned" | "raised"
    log_exists,         \* the DocumentSaver temp_file exists
    log,                \* content of the DocumentSaver temp_file, as JSON tokens
    appended,           \* results passed to append_result, in call order
    merged_results,     \* merged_results of save_final_results
    saver_outcome,      \* how the last save_final_results ended
    merged,             \* value returned by the last _safe_merge_results on a list
    yielded,            \* page ranges <<start, end>> yielded by the chunk generator
    jobs,               \* calls of process_document on the service so far
    ocr_ok,             \* chunks that an earlier call of process_document OCR'd
    timed_out,          \* the request's GLOBAL_TIMEOUT expired
    ocr_service,        \* the global ocr_service of routes.py: "None" or "created"
    req,                \* overlapping requests to /process: where each one is
    computed,           \* the calls of _get_hash made so far, with their results
    documents,          \* the files under DocumentSaver.base_path: path and content
    saves,              \* the calls of save_final_results: where each one is
    splitter,           \* PDFSplitter.split_pdf: its position and its temp files
    download,           \* the last download_file request and its response
    cache,              \* the cache directory: key -> content of <key>.json
    now,                \* datetime.now()
    ttl_hours,          \* self.ttl_hours
    task,               \* the cache operation each asyncio task is running
    last_set            \* per key: the last completed set, until the next set or invalidate

jobvars == <<pc, valid_pdf, total_pages, max_chunk_pages, max_text_size, start,
             chunk, attempt, outcomes, waits, last_wait, in_flight, abandoned,
             processed_results, chunks_processed, n_dispatched, n_none,
             unsafe_at, gen_sleeps, temp_files, temp_dir, vision_temp_dir,
             vision_failed, exc, outcome>>
filevars == <<documents, saves, splitter, download>>
svcvars == <<yielded, jobs, ocr_ok, timed_out, ocr_service, req, computed, filevars>>
cachevars == <<cache, now, ttl_hours, task, last_set>>
aggvars == <<log_exists, log, appended, merged_results, saver_outcome, merged>>
vars == <<jobvars, final_result, aggvars, svcvars, cachevars>>

\* ------------------------------------------------------------- helpers
Min(a, b) == IF a < b THEN a ELSE b

\* 2 ** n
RECURSIVE Pow2(_)
Pow2(n) == IF n = 0 THEN 1 ELSE 2 * Pow2(n - 1)

NoResult == [text |-> <<>>, pages |-> <<>>, total_chunks |-> 0,
             visual_elements |-> {}, classifications |-> {}]
NoMerged == [text |-> <<>>, pages |-> <<>>, chunks_processed |-> 0]
NoList == [text |-> <<>>, pages |-> <<>>, total_chunks |-> 0]

\* two requests to /process handled by the same process (SpecOverlap)
Reqs == {"r1", "r2"}
IdleReq == [pc |-> "idle", n |-> 0, temp_chunk |-> FALSE]

\* the calls of save_final_results that may overlap
Savers == {"j1", "j2"}
NoFilename == [dir |-> "", stem |-> "", ext |-> ""]
IdleSave == [pc |-> "idle", filename |-> NoFilename, text |-> <<>>,
             result_paths |-> <<>>]

\* split_pdf not called yet
IdleSplitter == [pc |-> "idle", calls |-> 0, max_pages_per_chunk |-> 1,
                 total_pages |-> 0, start_page |-> 0,
                 input |-> FALSE, chunks |-> {}, made |-> 0]

\* no download_file request yet
NoDownload == [file_path |-> [abs |-> FALSE, segs |-> <<>>], status |-> 0,
               served |-> <<>>]

FilesIdle ==
    /\ documents = {}
    /\ saves = [j \in Savers |-> IdleSave]
    /\ splitter = IdleSplitter
    /\ download = NoDownload

\* the cache keys, the values stored and the asyncio tasks of the cache model
Keys == {"k1", "k2"}
Values == {"v1", "v2"}
Tasks == {"t1", "t2"}
Caller == "t1"

\* what can go wrong in a call of set: nothing, json.dumps raises (the data
\* holds a value json cannot serialise), or the write raises OSError
FailModes == {"none", "dumps", "write"}

\* content of a cache file <key>.json: the two parts of the JSON text
\* {"timestamp": ts, "data": data}; ts = 0 / data = "none" where that part of
\* the text is not (yet) in the file
NoFile == [exists |-> FALSE, ts |-> 0, data |-> "none", ino |-> 0]
EmptyFile == [exists |-> TRUE, ts |-> 0, data |-> "none", ino |-> 0]

\* a task that runs no cache operation; after an operation op, key, rd_ts,
\* rd_data and ret keep what the operation was, what it read and what it
\* returned ("None" for None; for set, "ok" or "failed" as logged)
IdleTask == [op |-> "idle", pc |-> "idle", key |-> "k1", val |-> "none",
             ts |-> 0, fail |-> "none", ino |-> 0, rd_ts |-> 0, rd_data |-> "none",
             todo |-> {}, ret |-> "none", prev |-> [k \in Keys |-> NoFile]]
NoSet == [val |-> "none", ts |-> 0]

CacheIdle ==
    /\ cache = [k \in Keys |-> NoFile]
    /\ now = 1
    /\ ttl_hours = 1
    /\ task = [t \in Tasks |-> IdleTask]
    /\ last_set = [k \in Keys |-> NoSet]

SvcIdle ==
    /\ FilesIdle
    /\ ocr_service = "created"
    /\ req = [r \in Reqs |-> IdleReq]
    /\ computed = {}
    /\ yielded = <<>>
    /\ jobs = 1
    /\ ocr_ok = {}
    /\ timed_out = FALSE

\* range(0, total_pages, max_chunk_pages): number of values
NumChunks(P, M) == (P + M - 1) \div M

\* page range [ChunkStart, ChunkEnd) of the chunk with ordinal c
ChunkStart(c, M) == (c - 1) * M
ChunkEnd(c, M, P) == Min(ChunkStart(c, M) + M, P)

\* What Document AI returns for a chunk of n pages, as mapped by
\* _process_docai_response: the text (one character per page, written as the
\* chunk ordinal) and one record per page, numbered within the chunk.
process_docai_response(c, n) ==
    [text |-> [k \in 1..n |-> c], pages |-> [k \in 1..n |-> k]]

ChunkResultOf(c) ==
    process_docai_response(c,
        ChunkEnd(c, max_chunk_pages, total_pages) - ChunkStart(c, max_chunk_pages))

\* mutant of MergeLoop: the loop does not stop when the cap is reached
RECURSIVE MergeLoop_nobreak(_, _, _, _, _)
MergeLoop_nobreak(results, i, text, pages, cap) ==
    IF i > Len(results) THEN [text |-> text, pages |-> pages]
    ELSE LET r == results[i]
             text_chunk == SubSeq(r.text, 1, Min(Len(r.text), cap - Len(text)))
         IN MergeLoop_nobreak(results, i + 1, text \o text_chunk,
                              pages \o r.pages, cap)

\* _safe_merge_results: the loop over results from position i on
RECURSIVE MergeLoop(_, _, _, _, _)
MergeLoop(results, i, text, pages, cap) ==
    IF i > Len(results) THEN [text |-> text, pages |-> pages]
    ELSE LET r == results[i]
             text_chunk == SubSeq(r.text, 1, Min(Len(r.text), cap - Len(text)))
             t == text \o text_chunk
             p == pages \o r.pages
         IN IF Len(t) >= cap THEN [text |-> t, pages |-> p]
            ELSE MergeLoop(results, i + 1, t, p, cap)

safe_merge_results(results, cap) ==
    LET m == MergeLoop(results, 1, <<>>, <<>>, cap)
    IN [text |-> m.text, pages |-> m.pages, total_chunks |-> Len(results)]

\* ------------------------------------------------------------- Init
Init ==
    /\ pc = "start"
    /\ valid_pdf \in BOOLEAN
    /\ total_pages \in 0..MaxPages
    /\ max_chunk_pages \in 1..MaxChunkPages
    /\ max_text_size \in 1..MaxTextSize
    /\ start = 0
    /\ chunk = 0
    /\ attempt = 0
    /\ outcomes = <<>>
    /\ waits = <<>>
    /\ last_wait = 0
    /\ in_flight = 0
    /\ abandoned = 0
    /\ processed_results = <<>>
    /\ chunks_processed = 0
    /\ n_dispatched = 0
    /\ n_none = 0
    /\ unsafe_at = 0
    /\ gen_sleeps = 0
    /\ temp_files = {}
    /\ temp_dir = TRUE
    /\ vision_temp_dir = FALSE
    /\ vision_failed = FALSE
    /\ final_result = NoResult
    /\ exc = "none"
    /\ outcome = "none"
    /\ log_exists = FALSE
    /\ log = <<>>
    /\ appended = <<>>
    /\ merged_results = NoMerged
    /\ saver_outcome = "none"
    /\ merged = NoList
    /\ SvcIdle
    /\ CacheIdle

\* groups of variables, for UNCHANGED
inputs == <<valid_pdf, total_pages, max_chunk_pages, max_text_size>>
retryvars == <<attempt, outcomes, waits, last_wait>>
countvars == <<processed_results, chunks_processed, n_dispatched, n_none>>
visionvars == <<vision_temp_dir, vision_failed>>
endvars == <<final_result, exc, outcome, temp_dir>>

\* ------------------------------------------- process_document: the chunk loop
\* ocr.py 267-277: entry of process_document, first iteration of the generator
StartJob ==
    /\ pc = "start"
    /\ pc' = "gen_open"
    /\ UNCHANGED <<inputs, start, chunk, retryvars, in_flight, abandoned, countvars,
                   unsafe_at, gen_sleeps, temp_files, visionvars, endvars, aggvars, svcvars, cachevars>>

\* ocr.py 128-129: PdfReader(io.BytesIO(pdf_content)); raises on a malformed PDF
GenOpen ==
    /\ pc = "gen_open"
    /\ IF valid_pdf
       THEN pc' = "gen_next" /\ exc' = exc
       ELSE pc' = "finally" /\ exc' = "PdfReadError"
    /\ UNCHANGED <<inputs, start, chunk, retryvars, in_flight, abandoned, countvars,
                   unsafe_at, gen_sleeps, temp_files, visionvars, final_result,
                   outcome, temp_dir, aggvars, svcvars, cachevars>>

\* ocr.py 131-135: next value of range(0, total_pages, max_chunk_pages) and the
\* generator's memory check; the loop of process_document ends when the range does
GenNext ==
    /\ pc = "gen_next"
    /\ IF start >= total_pages
       THEN pc' = "vision"
       ELSE \E is_safe \in BOOLEAN :
                pc' = IF is_safe THEN "gen_create" ELSE "gen_sleep"
    /\ gen_sleeps' = 0
    /\ UNCHANGED <<inputs, start, chunk, retryvars, in_flight, abandoned, countvars,
                   unsafe_at, temp_files, visionvars, endvars, aggvars, svcvars, cachevars>>

\* mutant of GenSleep: after the sleep the memory check is made again
GenSleep_recheck ==
    /\ pc = "gen_sleep"
    /\ pc' = "gen_next"
    /\ gen_sleeps' = gen_sleeps + 1
    /\ UNCHANGED <<inputs, start, chunk, retryvars, in_flight, abandoned, countvars,
                   unsafe_at, temp_files, visionvars, endvars, aggvars, svcvars, cachevars>>

\* ocr.py 135: await asyncio.sleep(self.memory_check_interval), once
GenSleep ==
    /\ pc = "gen_sleep"
    /\ pc' = "gen_create"
    /\ gen_sleeps' = gen_sleeps + 1
    /\ UNCHANGED <<inputs, start, chunk, retryvars, in_flight, abandoned, countvars,
                   unsafe_at, temp_files, visionvars, endvars, aggvars, svcvars, cachevars>>

\* mutant of EndOf: the last chunk is not clipped to the document
EndOf_unclipped(s, M, P) == s + M

\* ocr.py 137 (pdf_splitter.py 73): end = min(start + max_chunk_pages, total_pages)
EndOf(s, M, P) == Min(s + M, P)

\* ocr.py 137-143: build the chunk of pages [start, end) and yield it
GenCreate ==
    /\ pc = "gen_create"
    /\ chunk' = (start \div max_chunk_pages) + 1
    /\ yielded' = Append(yielded, <<start, EndOf(start, max_chunk_pages, total_pages)>>)
    /\ pc' = "loop_mem"
    /\ UNCHANGED <<inputs, start, retryvars, in_flight, abandoned, countvars,
                   unsafe_at, gen_sleeps, temp_files, visionvars, endvars, aggvars,
                   jobs, ocr_ok, timed_out, ocr_service, req, computed, filevars,
                   cachevars>>

\* mutant of LoopMemUnsafe: the check only warns and the chunk is dispatched
LoopMemUnsafe_soft ==
    /\ pc = "loop_mem"
    /\ unsafe_at' = chunk
    /\ temp_files' = temp_files \cup {chunk}
    /\ n_dispatched' = n_dispatched + 1
    /\ attempt' = 0
    /\ outcomes' = <<>>
    /\ waits' = <<>>
    /\ last_wait' = 0
    /\ pc' = "attempt"
    /\ UNCHANGED <<inputs, start, chunk, in_flight, abandoned, processed_results,
                   chunks_processed, n_none, gen_sleeps, visionvars, endvars, aggvars, svcvars, cachevars>>

\* ocr.py 279-281: memory check of the loop body; unsafe => break
LoopMemUnsafe ==
    /\ pc = "loop_mem"
    /\ unsafe_at' = chunk
    /\ pc' = "vision"
    /\ UNCHANGED <<inputs, start, chunk, retryvars, in_flight, abandoned, countvars,
                   gen_sleeps, temp_files, visionvars, endvars, aggvars, svcvars, cachevars>>

\* ocr.py 279-291: memory safe; the chunk is written to a NamedTemporaryFile
\* and handed to _process_chunk_with_timeout
LoopMemSafe ==
    /\ pc = "loop_mem"
    /\ temp_files' = temp_files \cup {chunk}
    /\ n_dispatched' = n_dispatched + 1
    /\ attempt' = 0
    /\ outcomes' = <<>>
    /\ waits' = <<>>
    /\ last_wait' = 0
    /\ pc' = "attempt"
    /\ UNCHANGED <<inputs, start, chunk, in_flight, abandoned, processed_results,
                   chunks_processed, n_none, unsafe_at, gen_sleeps, visionvars,
                   endvars, aggvars, svcvars, cachevars>>

\* ocr.py 284-286: temp_chunk.write / flush raises (outside the inner try);
\* the with statement removes the file and the error leaves process_document
WriteTempChunkFails ==
    /\ pc = "loop_mem"
    /\ exc' = "OSError"
    /\ pc' = "finally"
    /\ UNCHANGED <<inputs, start, chunk, retryvars, in_flight, abandoned, countvars,
                   unsafe_at, gen_sleeps, temp_files, visionvars, final_result,
                   outcome, temp_dir, aggvars, svcvars, cachevars>>

\* ------------------------------------------- _process_chunk_with_timeout
\* ocr.py 154-158, 186-201: attempt number `attempt` starts one Document AI
\* invocation in a worker thread (asyncio.to_thread) under asyncio.wait_for
StartAttempt ==
    /\ pc = "attempt"
    /\ in_flight' = in_flight + 1
    /\ waits' = IF attempt > 0 THEN Append(waits, last_wait) ELSE waits
    /\ pc' = "awaiting"
    /\ UNCHANGED <<inputs, start, chunk, attempt, outcomes, last_wait, abandoned,
                   countvars, unsafe_at, gen_sleeps, temp_files, visionvars,
                   endvars, aggvars, svcvars, cachevars>>

\* mutant of AttemptReturns: the result of the last attempt is dropped
AttemptReturns_droplast ==
    /\ pc = "awaiting"
    /\ in_flight' = in_flight - 1
    /\ outcomes' = Append(outcomes, "ok")
    /\ IF attempt = max_retries - 1
       THEN n_none' = n_none + 1 /\ processed_results' = processed_results
       ELSE /\ processed_results' = Append(processed_results, ChunkResultOf(chunk))
            /\ n_none' = n_none
    /\ chunks_processed' = chunks_processed + 1
    /\ temp_files' = temp_files \ {chunk}
    /\ pc' = "post_mem"
    /\ UNCHANGED <<inputs, start, chunk, attempt, waits, last_wait, abandoned,
                   n_dispatched, unsafe_at, gen_sleeps, visionvars, endvars, aggvars, svcvars, cachevars>>

\* ocr.py 160, 294-297, 284 (exit of the with block): the invocation returns;
\* the result is appended to processed_results and the temp file is deleted
AttemptReturns ==
    /\ pc = "awaiting"
    /\ in_flight' = in_flight - 1
    /\ outcomes' = Append(outcomes, "ok")
    /\ processed_results' = Append(processed_results, ChunkResultOf(chunk))
    /\ chunks_processed' = chunks_processed + 1
    /\ temp_files' = temp_files \ {chunk}
    /\ pc' = "post_mem"
    /\ UNCHANGED <<inputs, start, chunk, attempt, waits, last_wait, abandoned,
                   n_dispatched, n_none, unsafe_at, gen_sleeps, visionvars,
                   endvars, aggvars, svcvars, cachevars>>

\* ocr.py 162-168: asyncio.wait_for times out. The awaiting task is cancelled
\* but the worker thread keeps running the invocation. On the last attempt
\* the method returns None; otherwise the loop goes on to the next attempt
\* at once (there is no sleep in this branch).
AttemptTimesOut ==
    /\ pc = "awaiting"
    /\ in_flight' = in_flight - 1
    /\ abandoned' = abandoned + 1
    /\ outcomes' = Append(outcomes, "timeout")
    /\ last_wait' = 0
    /\ IF attempt = max_retries - 1
       THEN /\ n_none' = n_none + 1
            /\ chunks_processed' = chunks_processed + 1
            /\ temp_files' = temp_files \ {chunk}
            /\ attempt' = attempt
            /\ pc' = "post_mem"
       ELSE /\ attempt' = attempt + 1
            /\ pc' = "attempt"
            /\ UNCHANGED <<n_none, chunks_processed, temp_files>>
    /\ UNCHANGED <<inputs, start, chunk, waits, processed_results, n_dispatched,
                   unsafe_at, gen_sleeps, visionvars, endvars, aggvars, svcvars, cachevars>>

\* mutant of AttemptRaises: the error of the last attempt is re-raised
AttemptRaises_reraised ==
    /\ pc = "awaiting"
    /\ in_flight' = in_flight - 1
    /\ outcomes' = Append(outcomes, "error")
    /\ last_wait' = 0
    /\ IF attempt = max_retries - 1
       THEN /\ exc' = "DocumentAIError"
            /\ temp_files' = temp_files \ {chunk}
            /\ pc' = "finally"
       ELSE /\ pc' = "backoff"
            /\ UNCHANGED <<exc, temp_files>>
    /\ UNCHANGED <<inputs, start, chunk, attempt, waits, abandoned, countvars,
                   unsafe_at, gen_sleeps, visionvars, final_result, outcome,
                   temp_dir, aggvars, svcvars, cachevars>>

\* ocr.py 170-173, 205-207: the invocation raises. On the last attempt the
\* method returns None; otherwise it goes on to the sleep of line 176.
AttemptRaises ==
    /\ pc = "awaiting"
    /\ in_flight' = in_flight - 1
    /\ outcomes' = Append(outcomes, "error")
    /\ last_wait' = 0
    /\ IF attempt = max_retries - 1
       THEN /\ n_none' = n_none + 1
            /\ chunks_processed' = chunks_processed + 1
            /\ temp_files' = temp_files \ {chunk}
            /\ pc' = "post_mem"
       ELSE /\ pc' = "backoff"
            /\ UNCHANGED <<n_none, chunks_processed, temp_files>>
    /\ UNCHANGED <<inputs, start, chunk, attempt, waits, abandoned,
                   processed_results, n_dispatched, unsafe_at, gen_sleeps,
                   visionvars, endvars, aggvars, svcvars, cachevars>>

\* ocr.py 176: await asyncio.sleep(2 ** attempt), then the next attempt
Backoff ==
    /\ pc = "backoff"
    /\ last_wait' = Pow2(attempt)
    /\ attempt' = attempt + 1
    /\ pc' = "attempt"
    /\ UNCHANGED <<inputs, start, chunk, outcomes, waits, in_flight, abandoned,
                   countvars, unsafe_at, gen_sleeps, temp_files, visionvars,
                   endvars, aggvars, svcvars, cachevars>>

\* ocr.py 198-201: an invocation whose wait_for timed out returns in its
\* worker thread; nobody awaits it any more
AbandonedReturns ==
    /\ abandoned > 0
    /\ abandoned' = abandoned - 1
    /\ UNCHANGED <<pc, inputs, start, chunk, retryvars, in_flight, countvars,
                   unsafe_at, gen_sleeps, temp_files, visionvars, endvars,
                   aggvars, svcvars, cachevars>>

\* ocr.py 303-308: del chunk, memory check after the chunk; safe => the
\* generator is resumed for the next value of the range
PostMemSafe ==
    /\ pc = "post_mem"
    /\ chunk' = 0
    /\ start' = start + max_chunk_pages
    /\ pc' = "gen_next"
    /\ UNCHANGED <<inputs, retryvars, in_flight, abandoned, countvars, unsafe_at,
                   gen_sleeps, temp_files, visionvars, endvars, aggvars, svcvars, cachevars>>

\* ocr.py 303-308: memory unsafe after the chunk => one sleep
PostMemUnsafe ==
    /\ pc = "post_mem"
    /\ chunk' = 0
    /\ pc' = "post_sleep"
    /\ UNCHANGED <<inputs, start, retryvars, in_flight, abandoned, countvars,
                   unsafe_at, gen_sleeps, temp_files, visionvars, endvars, aggvars, svcvars, cachevars>>

\* ocr.py 308: the sleep ends and the generator is resumed
PostSleep ==
    /\ pc = "post_sleep"
    /\ start' = start + max_chunk_pages
    /\ pc' = "gen_next"
    /\ UNCHANGED <<inputs, chunk, retryvars, in_flight, abandoned, countvars,
                   unsafe_at, gen_sleeps, temp_files, visionvars, endvars, aggvars, svcvars, cachevars>>

\* ------------------------------------------- Vision AI, merge, save, cleanup
\* ocr.py 311, vision_service.py 42-57: analyze_document creates its temp dir
VisionStart ==
    /\ pc = "vision"
    /\ vision_temp_dir' = TRUE
    /\ pc' = "vision_convert"
    /\ UNCHANGED <<inputs, start, chunk, retryvars, in_flight, abandoned, countvars,
                   unsafe_at, gen_sleeps, temp_files, vision_failed, endvars,
                   aggvars, svcvars, cachevars>>

\* vision_service.py 62-100: convert_from_bytes; the finally block removes the
\* temp dir; a failed conversion is re-raised
VisionConvert ==
    /\ pc = "vision_convert"
    /\ vision_temp_dir' = FALSE
    /\ \E converted \in BOOLEAN :
          IF converted
          THEN pc' = "vision_call" /\ UNCHANGED <<vision_failed, exc>>
          ELSE pc' = "finally" /\ vision_failed' = TRUE /\ exc' = "VisionError"
    /\ UNCHANGED <<inputs, start, chunk, retryvars, in_flight, abandoned, countvars,
                   unsafe_at, gen_sleeps, temp_files, final_result, outcome,
                   temp_dir, aggvars, svcvars, cachevars>>

\* vision_service.py 126-178: annotate_image returns; the result has the keys
\* text, labels and metadata
VisionReturns ==
    /\ pc = "vision_call"
    /\ pc' = "merge"
    /\ UNCHANGED <<inputs, start, chunk, retryvars, in_flight, abandoned, countvars,
                   unsafe_at, gen_sleeps, temp_files, visionvars, endvars, aggvars, svcvars, cachevars>>

\* vision_service.py 126-129, 180-183, ocr.py 334-336: annotate_image raises;
\* analyze_document re-raises and so does process_document
VisionRaises ==
    /\ pc = "vision_call"
    /\ vision_failed' = TRUE
    /\ exc' = "VisionError"
    /\ pc' = "finally"
    /\ UNCHANGED <<inputs, start, chunk, retryvars, in_flight, abandoned, countvars,
                   unsafe_at, gen_sleeps, temp_files, vision_temp_dir, final_result,
                   outcome, temp_dir, aggvars, svcvars, cachevars>>

\* ocr.py 314-320: merge, then the two Vision fields; vision_result has neither
\* key, so both get the default {}
Merge ==
    /\ pc = "merge"
    /\ final_result' =
          LET m == safe_merge_results(processed_results, max_text_size)
          IN [text |-> m.text, pages |-> m.pages, total_chunks |-> m.total_chunks,
              visual_elements |-> {}, classifications |-> {}]
    /\ pc' = "save"
    /\ UNCHANGED <<inputs, start, chunk, retryvars, in_flight, abandoned, countvars,
                   unsafe_at, gen_sleeps, temp_files, visionvars, exc, outcome,
                   temp_dir, aggvars, svcvars, cachevars>>

\* ocr.py 330: self.document_saver.save_results(...); DocumentSaver
\* (document_saver.py 9-109) defines no save_results, so the attribute lookup
\* raises AttributeError, which lines 334-336 re-raise
SaveResults ==
    /\ pc = "save"
    /\ exc' = "AttributeError"
    /\ pc' = "finally"
    /\ UNCHANGED <<inputs, start, chunk, retryvars, in_flight, abandoned, countvars,
                   unsafe_at, gen_sleeps, temp_files, visionvars, final_result,
                   outcome, temp_dir, aggvars, svcvars, cachevars>>

\* mutant of cleanup: the directory is left in place
cleanup_skipped(dir_exists) == dir_exists

\* ocr.py 101-108: shutil.rmtree(self.temp_dir)
cleanup(dir_exists) == FALSE

\* ocr.py 332-340: the finally block, then process_document returns or raises
Finally ==
    /\ pc = "finally"
    /\ temp_dir' = cleanup(temp_dir)
    /\ outcome' = IF exc = "none" THEN "returned" ELSE "raised"
    /\ pc' = "done"
    /\ UNCHANGED <<inputs, start, chunk, retryvars, in_flight, abandoned, countvars,
                   unsafe_at, gen_sleeps, temp_files, visionvars, final_result, exc,
                   aggvars, svcvars, cachevars>>

JobStep ==
    \/ StartJob \/ GenOpen \/ GenNext \/ GenSleep \/ GenCreate
    \/ LoopMemUnsafe \/ LoopMemSafe \/ WriteTempChunkFails
    \/ StartAttempt \/ AttemptReturns \/ AttemptTimesOut \/ AttemptRaises
    \/ Backoff \/ PostMemSafe \/ PostMemUnsafe \/ PostSleep
    \/ VisionStart \/ VisionConvert \/ VisionReturns \/ VisionRaises
    \/ Merge \/ SaveResults \/ Finally

Next == JobStep \/ AbandonedReturns

Spec == Init /\ [][Next]_vars

FairSpec == Spec /\ WF_vars(JobStep)

\* ------------------------------------------- the service across requests
RECURSIVE SeqToSet(_)
SeqToSet(q) == IF q = <<>> THEN {} ELSE {Head(q)} \cup SeqToSet(Tail(q))

\* the points of process_document at which the coroutine is suspended in an
\* await while chunks are processed (ocr.py 135, 138, 156, 176, 308) or Vision
\* AI is called (vision_service.py 126)
AwaitPoints == {"gen_sleep", "gen_create", "awaiting", "backoff", "post_sleep",
                "vision_call"}

\* routes.py 29-33: the next request calls process_document on the same global
\* ocr_service, here with the same document; ocr.py 267-269 start the locals
\* afresh.  Worker threads abandoned by earlier timeouts keep running, and the
\* working directory removed by _cleanup is not created again.
NextJob ==
    /\ pc = "done"
    /\ jobs < MaxJobs
    /\ jobs' = jobs + 1
    /\ ocr_ok' = ocr_ok \cup SeqToSet(processed_results)
    /\ pc' = "start"
    /\ start' = 0 /\ chunk' = 0
    /\ attempt' = 0 /\ outcomes' = <<>> /\ waits' = <<>> /\ last_wait' = 0
    /\ processed_results' = <<>> /\ chunks_processed' = 0
    /\ n_dispatched' = 0 /\ n_none' = 0
    /\ unsafe_at' = 0 /\ gen_sleeps' = 0
    /\ vision_failed' = FALSE
    /\ final_result' = NoResult /\ exc' = "none" /\ outcome' = "none"
    /\ yielded' = <<>>
    /\ timed_out' = FALSE
    /\ UNCHANGED <<inputs, in_flight, abandoned, temp_files, vision_temp_dir,
                   temp_dir, aggvars, ocr_service, req, computed, filevars,
                   cachevars>>

\* main.py 161-164, 172-176: asyncio.wait_for(call_next(request),
\* GLOBAL_TIMEOUT) expires; the request's task is cancelled at the await it is
\* suspended in, CancelledError passes `except Exception` (ocr.py 334) and
\* runs the finally block; response is still None, so the middleware re-raises
\* the TimeoutError.  A Document AI call in a worker thread is not stopped; the
\* with block of ocr.py 284 removes the chunk's temp file.
GlobalTimeout ==
    /\ pc \in AwaitPoints
    /\ ~timed_out
    /\ timed_out' = TRUE
    /\ exc' = "CancelledError"
    /\ abandoned' = abandoned + in_flight
    /\ in_flight' = 0
    /\ temp_files' = {}
    /\ pc' = "finally"
    /\ UNCHANGED <<inputs, start, chunk, retryvars, countvars, unsafe_at, gen_sleeps,
                   visionvars, final_result, outcome, temp_dir, aggvars,
                   yielded, jobs, ocr_ok, ocr_service, req, computed, filevars,
                   cachevars>>

NextService == Next \/ NextJob \/ GlobalTimeout

SpecService == Init /\ [][NextService]_vars

\* ------------------------------------------- DocumentSaver: the result log
\* json.dumps(result): the JSON text of a chunk result, as tokens
Tok(k, v) == [k |-> k, v |-> v]
Newline == Tok("\n", <<>>)

\* mutant of json_dumps: the page records are not serialised
json_dumps_textonly(r) ==
    <<Tok("{", <<>>), Tok("text", r.text), Tok("pages", <<>>), Tok("}", <<>>)>>

json_dumps(r) ==
    <<Tok("{", <<>>), Tok("text", r.text), Tok("pages", r.pages), Tok("}", <<>>)>>

\* json.loads(line): the dict of a JSON text (a trailing newline is ignored);
\* raises JSONDecodeError (ok = FALSE) when the text is not a complete JSON
\* object
json_loads(line) ==
    LET body == IF Len(line) > 0 /\ line[Len(line)].k = "\n"
                THEN SubSeq(line, 1, Len(line) - 1) ELSE line
    IN IF /\ Len(body) = 4
          /\ body[1].k = "{" /\ body[2].k = "text"
          /\ body[3].k = "pages" /\ body[4].k = "}"
       THEN [ok |-> TRUE, text |-> body[2].v, pages |-> body[3].v]
       ELSE [ok |-> FALSE, text |-> <<>>, pages |-> <<>>]

\* `async for line in f`: the lines of a file, each with its newline when it
\* has one
RECURSIVE SplitLines(_, _)
SplitLines(content, cur) ==
    IF content = <<>> THEN (IF cur = <<>> THEN <<>> ELSE <<cur>>)
    ELSE IF Head(content).k = "\n"
         THEN <<Append(cur, Newline)>> \o SplitLines(Tail(content), <<>>)
         ELSE SplitLines(Tail(content), Append(cur, Head(content)))

\* mutant of MergeLines: each chunk is put in front of what was merged so far
RECURSIVE MergeLines_prepend(_, _, _)
MergeLines_prepend(lines, i, acc) ==
    IF i > Len(lines) THEN acc
    ELSE LET chunk_result == json_loads(lines[i])
         IN IF ~chunk_result.ok THEN [acc EXCEPT !.ok = FALSE]
            ELSE MergeLines_prepend(lines, i + 1,
                    [ok |-> TRUE,
                     text |-> chunk_result.text \o acc.text,
                     pages |-> chunk_result.pages \o acc.pages,
                     chunks_processed |-> acc.chunks_processed + 1])

\* document_saver.py 69-81: the streaming merge of save_final_results
RECURSIVE MergeLines(_, _, _)
MergeLines(lines, i, acc) ==
    IF i > Len(lines) THEN acc
    ELSE LET chunk_result == json_loads(lines[i])
         IN IF ~chunk_result.ok THEN [acc EXCEPT !.ok = FALSE]
            ELSE MergeLines(lines, i + 1,
                    [ok |-> TRUE,
                     text |-> acc.text \o chunk_result.text,
                     pages |-> acc.pages \o chunk_result.pages,
                     chunks_processed |-> acc.chunks_processed + 1])

\* the chunk results a caller may append: chunk c of some document, of one
\* page (c even) or two pages (c odd)
AggResults == {process_docai_response(c, 1 + (c % 2)) : c \in 1..MaxOrd}

InitAgg ==
    /\ pc = "agg"
    /\ valid_pdf = TRUE
    /\ total_pages = 0
    /\ max_chunk_pages = 1
    /\ max_text_size \in 1..MaxTextSize
    /\ start = 0
    /\ chunk = 0
    /\ attempt = 0
    /\ outcomes = <<>>
    /\ waits = <<>>
    /\ last_wait = 0
    /\ in_flight = 0
    /\ abandoned = 0
    /\ processed_results = <<>>
    /\ chunks_processed = 0
    /\ n_dispatched = 0
    /\ n_none = 0
    /\ unsafe_at = 0
    /\ gen_sleeps = 0
    /\ temp_files = {}
    /\ temp_dir = TRUE
    /\ vision_temp_dir = FALSE
    /\ vision_failed = FALSE
    /\ final_result = NoResult
    /\ exc = "none"
    /\ outcome = "none"
    /\ log_exists \in BOOLEAN
    /\ log = <<>>
    /\ appended = <<>>
    /\ merged_results = NoMerged
    /\ saver_outcome = "none"
    /\ merged = NoList
    /\ SvcIdle
    /\ CacheIdle

\* document_saver.py 35-47: append_result opens temp_file in mode 'a' and
\* writes json.dumps(result) + '\n'
append_result(result) ==
    /\ pc = "agg"
    /\ Len(appended) < MaxLog
    /\ log_exists' = TRUE
    /\ log' = log \o json_dumps(result) \o <<Newline>>
    /\ appended' = Append(appended, result)
    /\ UNCHANGED <<jobvars, svcvars, cachevars, final_result, merged_results, saver_outcome, merged>>

\* document_saver.py 49-109: save_final_results reads temp_file line by line,
\* merges, writes the three artifacts and returns their paths; any error is
\* logged and re-raised
save_final_results ==
    /\ pc = "agg"
    /\ IF ~log_exists
       THEN saver_outcome' = "FileNotFoundError" /\ merged_results' = NoMerged
       ELSE LET m == MergeLines(SplitLines(log, <<>>), 1,
                                [ok |-> TRUE, text |-> <<>>, pages |-> <<>>,
                                 chunks_processed |-> 0])
            IN IF ~m.ok
               THEN saver_outcome' = "JSONDecodeError" /\ merged_results' = NoMerged
               ELSE /\ saver_outcome' = "returned"
                    /\ merged_results' = [text |-> m.text, pages |-> m.pages,
                                          chunks_processed |-> m.chunks_processed]
    /\ UNCHANGED <<jobvars, svcvars, cachevars, final_result, log_exists, log, appended, merged>>

\* ocr.py 230-257: _safe_merge_results applied to the list of results
MergeList ==
    /\ pc = "agg"
    /\ merged' = safe_merge_results(appended, max_text_size)
    /\ UNCHANGED <<jobvars, svcvars, cachevars, final_result, log_exists, log, appended,
                   merged_results, saver_outcome>>

NextAgg ==
    \/ \E result \in AggResults : append_result(result)
    \/ save_final_results
    \/ MergeList

SpecAgg == InitAgg /\ [][NextAgg]_vars

\* ------------------------------------------- CacheManager
\* cache_manager.py 44, 47, 106, 108: json.loads and cached['timestamp'] /
\* cached['data'] succeed only on a complete JSON text
ValidJson(file) == file.exists /\ file.ts # 0 /\ file.data # "none"

\* mutant of Expired: no entry ever expires
Expired_never(ts, t) == FALSE

\* mutant of Expired: an entry whose age equals the TTL counts as expired
Expired_inclusive(ts, t) == ts + ttl_hours <= t

\* cache_manager.py 48, 109: cached_time + timedelta(hours=ttl_hours) < now
Expired(ts, t) == ts + ttl_hours < t

\* mutant of os_remove: the file is left in place
os_remove_kept(file) == file

\* cache_manager.py 90, 110: os.remove(path)
os_remove(file) == NoFile

\* what a get that reads `file` at time t returns
Lookup(file, t) ==
    IF ValidJson(file) /\ ~Expired(file.ts, t) THEN file.data ELSE "None"

\* the task goes back to idle, having returned r from operation op on key k
Return(t, op, k, r) ==
    [task EXCEPT ![t] = [IdleTask EXCEPT !.op = op, !.key = k, !.ret = r,
                                         !.rd_ts = task[t].rd_ts]]

InitCache ==
    /\ pc = "cache"
    /\ valid_pdf = TRUE
    /\ total_pages = 0
    /\ max_chunk_pages = 1
    /\ max_text_size = 1
    /\ start = 0
    /\ chunk = 0
    /\ attempt = 0
    /\ outcomes = <<>>
    /\ waits = <<>>
    /\ last_wait = 0
    /\ in_flight = 0
    /\ abandoned = 0
    /\ processed_results = <<>>
    /\ chunks_processed = 0
    /\ n_dispatched = 0
    /\ n_none = 0
    /\ unsafe_at = 0
    /\ gen_sleeps = 0
    /\ temp_files = {}
    /\ temp_dir = TRUE
    /\ vision_temp_dir = FALSE
    /\ vision_failed = FALSE
    /\ final_result = NoResult
    /\ exc = "none"
    /\ outcome = "none"
    /\ log_exists = FALSE
    /\ log = <<>>
    /\ appended = <<>>
    /\ merged_results = NoMerged
    /\ saver_outcome = "none"
    /\ merged = NoList
    /\ SvcIdle
    /\ cache = [k \in Keys |-> NoFile]
    /\ now = 1
    /\ ttl_hours \in 1..MaxTTL
    /\ task = [t \in Tasks |-> IdleTask]
    /\ last_set = [k \in Keys |-> NoSet]

noncache == <<jobvars, final_result, aggvars, svcvars>>

\* datetime.now() advances
Tick ==
    /\ pc = "cache"
    /\ now < MaxTime
    /\ now' = now + 1
    /\ UNCHANGED <<noncache, cache, ttl_hours, task, last_set>>

\* cache_manager.py 38-43: get(key) checks os.path.exists and, if the file is
\* there, starts to open it (await)
GetBegin(t, k) ==
    /\ pc = "cache"
    /\ task[t].pc = "idle"
    /\ task' = IF cache[k].exists
               THEN [task EXCEPT ![t] = [IdleTask EXCEPT !.op = "get", !.key = k,
                                                         !.pc = "read"]]
               ELSE [task EXCEPT ![t] = [IdleTask EXCEPT !.op = "get", !.key = k,
                                                         !.ret = "None"]]
    /\ UNCHANGED <<noncache, cache, now, ttl_hours, last_set>>

\* cache_manager.py 43-44, 55-57: the file is opened and read in a worker
\* thread and the text is parsed; a file that has gone (FileNotFoundError) or
\* an incomplete text (JSONDecodeError) is logged and None is returned
GetRead(t) ==
    /\ pc = "cache"
    /\ task[t].op = "get" /\ task[t].pc = "read"
    /\ LET file == cache[task[t].key]
       IN task' = IF ValidJson(file)
                  THEN [task EXCEPT ![t].pc = "check", ![t].rd_ts = file.ts,
                                    ![t].rd_data = file.data]
                  ELSE Return(t, "get", task[t].key, "None")
    /\ UNCHANGED <<noncache, cache, now, ttl_hours, last_set>>

\* cache_manager.py 46-53, 87-91: after the file is closed, the expiry test on
\* the timestamp that was read; an expired entry makes get call invalidate,
\* which removes the file now at the key's path, and return None
GetCheck(t) ==
    /\ pc = "cache"
    /\ task[t].op = "get" /\ task[t].pc = "check"
    /\ LET k == task[t].key
       IN IF Expired(task[t].rd_ts, now)
          THEN /\ cache' = IF cache[k].exists
                           THEN [cache EXCEPT ![k] = os_remove(cache[k])]
                           ELSE cache
               /\ task' = Return(t, "get", k, "None")
          ELSE /\ cache' = cache
               /\ task' = Return(t, "get", k, task[t].rd_data)
    /\ UNCHANGED <<noncache, now, ttl_hours, last_set>>

\* the file a handle opened by task t for key k still writes to: the file at
\* the key's path, unless that one was removed (or removed and created anew)
\* since the handle was opened
Visible(t) ==
    LET file == cache[task[t].key]
    IN file.exists /\ file.ino = task[t].ino

\* a file identity for a file that open(path, 'w') creates: one that no open
\* handle of another task refers to
FreshIno(t) ==
    LET held == {task[u].ino : u \in {u \in Tasks : u # t /\ task[u].op = "set"
                                                  /\ task[u].pc \in {"write1", "write2"}}}
        free == (1..Cardinality(Tasks)) \ held
    IN CHOOSE i \in free : \A j \in free : i <= j

\* cache_manager.py 66-73: set(key, data) builds cache_data with the timestamp
\* datetime.now() and starts to open the file for writing (await)
SetBegin(t, k, v, f) ==
    /\ pc = "cache"
    /\ task[t].pc = "idle"
    /\ task' = [task EXCEPT ![t] = [IdleTask EXCEPT !.op = "set", !.key = k,
                                       !.pc = "open", !.val = v, !.ts = now,
                                       !.fail = f, !.prev = cache]]
    /\ last_set' = [last_set EXCEPT ![k] = NoSet]
    /\ UNCHANGED <<noncache, cache, now, ttl_hours>>

\* cache_manager.py 73-74, 78-79: open(cache_path, 'w') creates the file or
\* truncates it; then json.dumps(cache_data) is evaluated, and if it raises the
\* file is closed as it is and the error is logged
SetOpen(t) ==
    /\ pc = "cache"
    /\ task[t].op = "set" /\ task[t].pc = "open"
    /\ LET k == task[t].key
           ino == IF cache[k].exists THEN cache[k].ino ELSE FreshIno(t)
       IN /\ cache' = [cache EXCEPT ![k] = [EmptyFile EXCEPT !.ino = ino]]
          /\ task' = IF task[t].fail = "dumps"
                     THEN Return(t, "set", k, "failed")
                     ELSE [task EXCEPT ![t].pc = "write1", ![t].ino = ino]
    /\ UNCHANGED <<noncache, now, ttl_hours, last_set>>

\* cache_manager.py 74, 78-79: the first part of the text reaches the file, or
\* the write raises OSError, which is logged
SetWrite1(t) ==
    /\ pc = "cache"
    /\ task[t].op = "set" /\ task[t].pc = "write1"
    /\ LET k == task[t].key
       IN IF task[t].fail = "write"
          THEN /\ task' = Return(t, "set", k, "failed")
               /\ cache' = cache
          ELSE /\ task' = [task EXCEPT ![t].pc = "write2"]
               /\ cache' = IF Visible(t)
                           THEN [cache EXCEPT ![k].ts = task[t].ts]
                           ELSE cache
    /\ UNCHANGED <<noncache, now, ttl_hours, last_set>>

\* cache_manager.py 74-76: the rest of the text reaches the file, the file is
\* closed and set returns
SetWrite2(t) ==
    /\ pc = "cache"
    /\ task[t].op = "set" /\ task[t].pc = "write2"
    /\ LET k == task[t].key
           file == IF Visible(t) THEN [cache[k] EXCEPT !.data = task[t].val]
                   ELSE cache[k]
       IN /\ cache' = [cache EXCEPT ![k] = file]
          /\ last_set' = [last_set EXCEPT ![k] =
                             [val |-> task[t].val,
                              ts |-> IF Visible(t) THEN file.ts ELSE task[t].ts]]
          /\ task' = Return(t, "set", k, "ok")
    /\ UNCHANGED <<noncache, now, ttl_hours>>

\* cache_manager.py 81-93: invalidate(key) removes the file if it exists; it
\* has no await, so it runs in one step
Invalidate(t, k) ==
    /\ pc = "cache"
    /\ task[t].pc = "idle"
    /\ cache' = IF cache[k].exists THEN [cache EXCEPT ![k] = os_remove(cache[k])]
                ELSE cache
    /\ last_set' = [last_set EXCEPT ![k] = NoSet]
    /\ task' = [task EXCEPT ![t] = [IdleTask EXCEPT !.op = "invalidate", !.key = k,
                                                    !.ret = "None"]]
    /\ UNCHANGED <<noncache, now, ttl_hours>>

\* cache_manager.py 98-99: cleanup_old_entries takes now = datetime.now() and
\* the list of the directory, once
SweepBegin(t) ==
    /\ pc = "cache"
    /\ task[t].pc = "idle"
    /\ task' = [task EXCEPT ![t] = [IdleTask EXCEPT !.op = "sweep", !.pc = "sweep",
                                       !.ts = now, !.prev = cache,
                                       !.todo = {k \in Keys : cache[k].exists}]]
    /\ UNCHANGED <<noncache, cache, now, ttl_hours, last_set>>

\* cache_manager.py 103-106, 112-113: the next file of the list is opened, read
\* and parsed; a file that has gone or does not parse is logged and skipped
SweepRead(t, k) ==
    /\ pc = "cache"
    /\ task[t].op = "sweep" /\ task[t].pc = "sweep"
    /\ k \in task[t].todo
    /\ task' = IF ValidJson(cache[k])
               THEN [task EXCEPT ![t].pc = "sweep_check", ![t].key = k,
                                 ![t].rd_ts = cache[k].ts]
               ELSE [task EXCEPT ![t].todo = task[t].todo \ {k}]
    /\ UNCHANGED <<noncache, cache, now, ttl_hours, last_set>>

\* cache_manager.py 108-113: after the file is closed, the expiry test against
\* the `now` taken at the start; an expired file is removed (an os.remove that
\* finds no file is logged)
SweepCheck(t) ==
    /\ pc = "cache"
    /\ task[t].op = "sweep" /\ task[t].pc = "sweep_check"
    /\ LET k == task[t].key
       IN /\ cache' = IF Expired(task[t].rd_ts, task[t].ts) /\ cache[k].exists
                      THEN [cache EXCEPT ![k] = os_remove(cache[k])]
                      ELSE cache
          /\ task' = [task EXCEPT ![t].pc = "sweep", ![t].rd_ts = 0,
                                  ![t].todo = task[t].todo \ {k}]
    /\ UNCHANGED <<noncache, now, ttl_hours, last_set>>

\* cache_manager.py 99: the list is exhausted and cleanup_old_entries returns
SweepDone(t) ==
    /\ pc = "cache"
    /\ task[t].op = "sweep" /\ task[t].pc = "sweep"
    /\ task[t].todo = {}
    /\ task' = Return(t, "sweep", task[t].key, "None")
    /\ UNCHANGED <<noncache, cache, now, ttl_hours, last_set>>

GetStep(t) == GetRead(t) \/ GetCheck(t)
SetStep(t) == SetOpen(t) \/ SetWrite1(t) \/ SetWrite2(t)
SweepStep(t) == (\E k \in Keys : SweepRead(t, k)) \/ SweepCheck(t) \/ SweepDone(t)

\* one caller: a cache operation is called when the previous one has returned
NextCache ==
    \/ Tick
    \/ \E k \in Keys : GetBegin(Caller, k)
    \/ \E k \in Keys, v \in Values, f \in FailModes : SetBegin(Caller, k, v, f)
    \/ \E k \in Keys : Invalidate(Caller, k)
    \/ SweepBegin(Caller)
    \/ GetStep(Caller) \/ SetStep(Caller) \/ SweepStep(Caller)

SpecCache == InitCache /\ [][NextCache]_vars

\* the value cached under a key: the key is the hash of the content the value
\* was computed from (cache_manager.py 23-25), so every set of a key writes
\* the same value
ValueOf(k) == IF k = "k1" THEN "v1" ELSE "v2"

\* concurrent tasks that get and set, every set of a key writing the same
\* value and completing without error
NextCacheConc ==
    \/ Tick
    \/ \E t \in Tasks, k \in Keys : GetBegin(t, k)
    \/ \E t \in Tasks, k \in Keys : SetBegin(t, k, ValueOf(k), "none")
    \/ \E t \in Tasks : GetStep(t) \/ SetStep(t)

SpecCacheConc == InitCache /\ [][NextCacheConc]_vars

\* ------------------------------------------------------------- claims
\* invocations started and not yet returned
InFlight == in_flight + abandoned

N == NumChunks(total_pages, max_chunk_pages)

AfterLoop == {"vision", "vision_convert", "vision_call", "merge", "save",
              "finally", "done"}

RECURSIVE FlatText(_)
FlatText(results) ==
    IF results = <<>> THEN <<>> ELSE Head(results).text \o FlatText(Tail(results))

RECURSIVE FlatPages(_)
FlatPages(results) ==
    IF results = <<>> THEN <<>> ELSE Head(results).pages \o FlatPages(Tail(results))

NonDecreasing(s) == \A i \in 1..Len(s) : \A j \in i..Len(s) : s[i] <= s[j]

IsPrefix(s, t) == Len(s) <= Len(t) /\ s = SubSeq(t, 1, Len(s))

\* C1: at every instant at most K = 1 OCR capability invocations are in
\* flight (started and not yet returned), over all chunks and all attempts.
C1_AtMostOneInFlight == InFlight <= 1

\* C2: when exactly one of N >= 2 chunks fails on every attempt and the others
\* succeed, process_document returns a result that reports chunks_failed = 1
\* and whose text and pages are those of the N-1 successful chunks.
C2_PartialFailureIsSuccess ==
    (/\ pc = "done" /\ ~vision_failed
     /\ N >= 2 /\ n_dispatched = N /\ n_none = 1
     /\ Len(processed_results) = N - 1)
    => (/\ outcome = "returned"
        /\ "chunks_failed" \in DOMAIN final_result
        /\ final_result.chunks_failed = 1
        /\ final_result.text = FlatText(processed_results)
        /\ final_result.pages = FlatPages(processed_results))

\* C3: a chunk whose first max_retries - 1 attempts fail (by timeout or by
\* error, in any mix) and whose attempt max_retries succeeds is recorded as
\* succeeded: its result is the one appended last to processed_results; and
\* a chunk is given up only after max_retries failed attempts.
C3_RetryThenSucceed ==
    pc = "post_mem" =>
        /\ (/\ Len(outcomes) = max_retries
            /\ \A i \in 1..(max_retries - 1) : outcomes[i] \in {"timeout", "error"}
            /\ outcomes[max_retries] = "ok")
           => (/\ Len(processed_results) >= 1
               /\ processed_results[Len(processed_results)] = ChunkResultOf(chunk)
               /\ Len(processed_results) + n_none = chunks_processed)
        /\ outcomes[Len(outcomes)] # "ok" => Len(outcomes) = max_retries

C3_Witness ==
    /\ pc = "post_mem"
    /\ outcomes \in {<<"timeout", "error", "ok">>, <<"error", "timeout", "ok">>}
    /\ processed_results[Len(processed_results)] = ChunkResultOf(chunk)

\* C4: before the retry that follows failed attempt i (0-based) the processor
\* has slept 2^i, whether attempt i failed by timeout or by error.
C4_BackoffDoubles == \A i \in 1..Len(waits) : waits[i] = Pow2(i - 1)

\* C5: when all N chunks succeed the merged page list has as many pages as
\* the chunks together and its page numbers are 1, 2, ..., sum in order
\* (stated here for the documents whose text stays below max_text_size).
C5_PagesRenumbered ==
    (/\ pc = "save" /\ N >= 1 /\ n_dispatched = N
     /\ Len(processed_results) = N
     /\ total_pages < max_text_size)
    => (/\ Len(final_result.pages) = total_pages
        /\ \A k \in 1..Len(final_result.pages) : final_result.pages[k] = k)

C7_ZeroSuccessRaises ==
    (/\ pc \in {"save", "finally", "done"}
     /\ ~vision_failed /\ exc \notin {"PdfReadError", "OSError"}
     /\ processed_results = <<>>)
    => exc = "AggregationError"

\* C8: if analyze_document fails while at least one chunk succeeded, the job
\* still returns a result, with empty visual_elements and classifications.
C8_VisionFailureAbsorbed ==
    (pc = "done" /\ vision_failed /\ Len(processed_results) >= 1)
    => (/\ outcome = "returned"
        /\ final_result.visual_elements = {}
        /\ final_result.classifications = {})

C10_TerminatesAndCleansUp ==
    /\ <>(pc = "done")
    /\ [](pc = "done" => (/\ outcome \in {"returned", "raised"}
                          /\ temp_files = {}
                          /\ ~temp_dir
                          /\ ~vision_temp_dir))

C10_Witness ==
    /\ pc = "done" /\ outcome = "raised" /\ n_dispatched >= 2
    /\ exc = "AttributeError" /\ ~temp_dir /\ temp_files = {}

\* ---------------------------------------------------------------- C11
\* C11: a job makes no OCR invocation for a chunk that an earlier job on the
\* same service already processed successfully (same bytes, no time elapsed,
\* so within any TTL).
C11_NoInvocationOnRepeat ==
    pc = "awaiting" => ChunkResultOf(chunk) \notin ocr_ok

\* ---------------------------------------------------------------- C14
\* C14: a job whose overall timeout expired while its chunks were being
\* processed ends by returning the merge of the chunk results it had so far,
\* not by raising.
C14_TimeoutAggregates ==
    (timed_out /\ pc = "done" /\ processed_results # <<>>) =>
        /\ outcome = "returned"
        /\ final_result.total_chunks = Len(processed_results)

\* ---------------------------------------------------------------- C12
\* C12: at any instant the job's result log holds one record for every chunk
\* already reported as succeeded, and a succeeded chunk's result is in the
\* cache.
C12_SuccessesCheckpointed ==
    /\ Len(SplitLines(log, <<>>)) = Len(processed_results)
    /\ processed_results # <<>> => \E k \in Keys : cache[k].exists

\* ---------------------------------------------------------------- C13
\* C13: whenever the log holding the K results appended so far is read back
\* (as save_final_results reads it), every line decodes to the result that
\* was appended at that position, and the merge returns chunks_processed = K
\* with text and pages the concatenation of the K results in append order.
C13_LogRecoversAppended ==
    [][(save_final_results /\ log_exists) =>
          /\ Len(SplitLines(log, <<>>)) = Len(appended)
          /\ \A i \in 1..Len(appended) :
                 LET r == json_loads(SplitLines(log, <<>>)[i])
                 IN r.ok /\ r.text = appended[i].text /\ r.pages = appended[i].pages
          /\ saver_outcome' = "returned"
          /\ merged_results' = [text |-> FlatText(appended),
                                pages |-> FlatPages(appended),
                                chunks_processed |-> Len(appended)]]_vars

\* two different results were appended, then the log was read back
C13_Witness ==
    /\ saver_outcome = "returned"
    /\ Len(appended) = 2 /\ appended[1] # appended[2]
    /\ merged_results.chunks_processed = 2
    /\ merged_results.pages = appended[1].pages \o appended[2].pages

\* ------------------------------------------------------- C15 .. C19
\* the caller's operation op returns in this step
Returns(op) ==
    /\ task'[Caller] # task[Caller]
    /\ task'[Caller].pc = "idle"
    /\ task'[Caller].op = op

\* C15: a get(key) that returns after a completed set(key, value), with no set
\* or invalidate of the key in between, returns value when the entry's age is
\* below the TTL and None when its age is above the TTL.
C15_GetAfterSet ==
    [][\A k \in Keys :
          (Returns("get") /\ task'[Caller].key = k /\ last_set[k].val # "none") =>
              LET age == now - last_set[k].ts
              IN /\ age < ttl_hours => task'[Caller].ret = last_set[k].val
                 /\ age > ttl_hours => task'[Caller].ret = "None"]_vars

\* a get returned the value set in the same hour
C15_Witness ==
    LET k == task[Caller].key
    IN /\ task[Caller].op = "get" /\ task[Caller].pc = "idle"
       /\ last_set[k].val # "none"
       /\ now - last_set[k].ts < ttl_hours
       /\ task[Caller].ret = last_set[k].val

\* C16: the step of get that has read an entry older than the TTL returns None
\* and leaves no file for the key; every other step of a get, in particular
\* the one that has read a non-expired entry and returns its data, leaves the
\* store unchanged.
C16_ExpiredReadRemoves ==
    [][(task'[Caller] # task[Caller] /\ task'[Caller].op = "get") =>
          LET k == task'[Caller].key
          IN IF task[Caller].pc = "check" /\ now - task[Caller].rd_ts > ttl_hours
             THEN task'[Caller].ret = "None" /\ ~cache'[k].exists
             ELSE /\ cache' = cache
                  /\ task[Caller].pc = "check" =>
                         task'[Caller].ret = task[Caller].rd_data]_vars

\* a get read an entry older than the TTL, returned None, and the file is gone
C16_Witness ==
    /\ task[Caller].op = "get" /\ task[Caller].pc = "idle"
    /\ task[Caller].rd_ts # 0
    /\ now - task[Caller].rd_ts > ttl_hours
    /\ task[Caller].ret = "None"
    /\ ~cache[task[Caller].key].exists

\* C17: when cleanup_old_entries returns, every entry that was older than the
\* TTL at the time of the sweep is gone, no entry older than that remains, and
\* every entry that was not older than the TTL then is still there with its
\* timestamp and value.
C17_SweepRemovesExpiredOnly ==
    [][SweepDone(Caller) =>
          LET swept_at == task[Caller].ts
          IN \A k \in Keys :
                /\ ValidJson(cache[k]) => ~(swept_at - cache[k].ts > ttl_hours)
                /\ ValidJson(task[Caller].prev[k]) =>
                       IF swept_at - task[Caller].prev[k].ts > ttl_hours
                       THEN ~cache[k].exists
                       ELSE cache[k] = task[Caller].prev[k]]_vars

\* a sweep is about to return, having removed an expired entry and kept a
\* fresh one
C17_Witness ==
    /\ task[Caller].op = "sweep" /\ task[Caller].pc = "sweep"
    /\ task[Caller].todo = {}
    /\ \E k1, k2 \in Keys :
          /\ ValidJson(task[Caller].prev[k1])
          /\ task[Caller].ts - task[Caller].prev[k1].ts > ttl_hours
          /\ ~cache[k1].exists
          /\ ValidJson(task[Caller].prev[k2])
          /\ task[Caller].ts - task[Caller].prev[k2].ts <= ttl_hours
          /\ cache[k2] = task[Caller].prev[k2]

\* C18: a set that fails leaves the cache as though it had not been called: a
\* get of the key returns what it would have returned on the file as it was
\* when set was called.
C18_FailedSetIsNoOp ==
    [][(Returns("set") /\ task'[Caller].ret = "failed") =>
          LET k == task'[Caller].key
          IN Lookup(cache'[k], now) = Lookup(task[Caller].prev[k], now)]_vars

\* C19: with concurrent gets and sets of a key that all write the same value,
\* every get returns None or that value, and when no set of the key is running
\* and the last one completed less than the TTL ago, a get returns the value.
C19_SameValueRace ==
    /\ \A t \in Tasks :
          (task[t].op = "get" /\ task[t].pc = "idle") =>
              task[t].ret \in {"None", ValueOf(task[t].key)}
    /\ \A k \in Keys :
          ( /\ \A t \in Tasks : ~(task[t].op = "set" /\ task[t].pc # "idle"
                                                     /\ task[t].key = k)
            /\ last_set[k].val # "none"
            /\ now - last_set[k].ts <= ttl_hours )
          => Lookup(cache[k], now) = last_set[k].val

\* ---------------------------------------------------------------- C20
\* the chunk generator ran to the end of its range (no memory stop, no error)
GenExhausted == pc = "vision" /\ unsafe_at = 0

\* ceil(P / M): the least n with n * M >= P
Ceil(P, M) == CHOOSE n \in 0..P : n * M >= P /\ \A k \in 0..(n - 1) : k * M < P

\* C20: the ranges yielded so far are ascending, disjoint and contiguous from
\* page 0, each of max_chunk_pages pages except possibly the last one of the
\* document; once the generator is exhausted on a document of P >= 1 pages it
\* has yielded ceil(P/M) ranges covering 0..P-1, the last one of
\* P - M * (ceil(P/M) - 1) pages.
C20_ChunksPartitionPages ==
    LET P == total_pages
        M == max_chunk_pages
        n == Len(yielded)
        size(i) == yielded[i][2] - yielded[i][1]
    IN /\ n > 0 => yielded[1][1] = 0
       /\ \A i \in 1..n : size(i) >= 1 /\ yielded[i][2] <= P
       /\ \A i \in 1..(n - 1) : yielded[i + 1][1] = yielded[i][2] /\ size(i) = M
       /\ (GenExhausted /\ P >= 1) =>
              /\ n = Ceil(P, M)
              /\ yielded[n][2] = P
              /\ size(n) = P - M * (Ceil(P, M) - 1)
              /\ {q \in 0..(P - 1) : \E i \in 1..n :
                       yielded[i][1] <= q /\ q < yielded[i][2]} = 0..(P - 1)

\* a 3-page document cut by 2: two chunks, the last one shorter
C20_Witness ==
    /\ GenExhausted
    /\ total_pages = 3 /\ max_chunk_pages = 2
    /\ yielded = <<(<<0, 2>>), (<<2, 3>>)>>

\* ---------------------------------------------------------------- C21
\* C21: on a document of zero pages or of one page the chunk generator, run
\* to its end, has yielded exactly one chunk.
C21_SmallDocumentOneChunk ==
    (GenExhausted /\ total_pages <= 1) => Len(yielded) = 1

\* ---------------------------------------------------------------- C22
\* C22: process_document ends by returning a result, or by raising
\* AggregationError or ConfigurationError; no other error leaves it.
C22_OnlyTwoErrorsPropagate ==
    (pc = "done" /\ valid_pdf) =>
        \/ outcome = "returned"
        \/ outcome = "raised" /\ exc \in {"AggregationError", "ConfigurationError"}

\* ---------------------------------------------------------------- C23
\* the pcs of the chunk loop (generator and per-chunk processing)
ChunkLoop == {"gen_open", "gen_next", "gen_sleep", "gen_create", "loop_mem",
              "attempt", "awaiting", "backoff", "post_mem", "post_sleep"}

\* C23: the secondary analysis is launched while chunk processing is under
\* way: the step that starts analyze_document is taken inside the chunk loop.
C23_VisionLaunchedDuringChunks ==
    [][(~vision_temp_dir /\ vision_temp_dir') => pc \in ChunkLoop]_vars

\* ---------------------------------------------------------------- C25
\* C25: when the result is built, every chunk the generator yielded has ended
\* with one outcome, succeeded or failed, and the reported number of chunks is
\* the number of chunks split.
C25_EveryChunkAccounted ==
    pc = "save" =>
        /\ Len(processed_results) + n_none = Len(yielded)
        /\ final_result.total_chunks = Len(yielded)

\* ---------------------------------------------------------------- C26
\* ocr.py 138, 143: the generator's local `chunk` refers to the bytes of the
\* chunk it yielded last until the next assignment to it; nothing deletes it
GenHolds == IF pc \in ChunkLoop /\ Len(yielded) > 0 THEN {Len(yielded)} ELSE {}

\* ocr.py 277, 303: the loop variable `chunk` of process_document, until
\* `del chunk`
ConsumerHolds == IF chunk > 0 THEN {chunk} ELSE {}

\* ocr.py 138: create_chunk is running in a worker thread and builds the bytes
\* of the next chunk
Building == IF pc = "gen_create" THEN {(start \div max_chunk_pages) + 1} ELSE {}

\* C26: at every instant at most one chunk's bytes are resident (referenced
\* or being built): chunk i+1 is not built while chunk i is still held.
C26_OneChunkResident ==
    Cardinality(GenHolds \cup ConsumerHolds \cup Building) <= 1

\* ---------------------------------------------------------------- C28
RetryLoop == {"attempt", "awaiting", "backoff"}

\* invocations started for the chunk being processed
Started == Len(outcomes) + (IF pc = "awaiting" THEN 1 ELSE 0)

AllFailed(q) == \A i \in 1..Len(q) : q[i] \in {"timeout", "error"}

\* C28: for a chunk, at most max_retries invocations are started, none after
\* one that succeeded; _process_chunk_with_timeout ends either with the result
\* of the attempt that succeeded or with None after exactly max_retries failed
\* attempts, and never with an exception.
C28_AtMostMaxRetriesNeverRaises ==
    /\ [](/\ Started <= max_retries
          /\ pc \in RetryLoop => AllFailed(outcomes))
    /\ [][(pc = "awaiting" /\ pc' \notin RetryLoop) =>
              /\ pc' = "post_mem" /\ exc' = "none"
              /\ \/ /\ outcomes'[Len(outcomes')] = "ok"
                    /\ processed_results' = Append(processed_results, ChunkResultOf(chunk))
                    /\ n_none' = n_none
                 \/ /\ AllFailed(outcomes') /\ Len(outcomes') = max_retries
                    /\ processed_results' = processed_results
                    /\ n_none' = n_none + 1]_vars

\* a chunk was given up after a timeout, an error and a timeout
C28_Witness ==
    /\ pc = "post_mem"
    /\ outcomes = <<"timeout", "error", "timeout">>
    /\ n_none = 1 /\ processed_results = <<>>
    /\ exc = "none"

\* ---------------------------------------------------------------- C29
\* C29: when every awaited call returns, raises or times out, the job ends;
\* on the way the generator yields at most one chunk per chunk of the
\* document, each is dispatched at most once, each gets at most max_retries
\* attempts, and the generator sleeps at most once before a chunk.
C29_TerminatesWithinBounds ==
    /\ <>(pc = "done")
    /\ [](/\ Len(yielded) <= N
          /\ n_dispatched <= Len(yielded)
          /\ chunks_processed <= n_dispatched
          /\ Started <= max_retries
          /\ gen_sleeps <= 1)

\* the job ended although both chunks of the document failed all their
\* attempts
C29_Witness ==
    /\ pc = "done"
    /\ N = 2 /\ n_none = 2
    /\ Len(outcomes) = max_retries /\ AllFailed(outcomes)

\* ---------------------------------------------------------------- C30
\* the file of key k is the entry that the last completed set of k wrote
WrittenByCompletedSet(k) ==
    /\ last_set[k].val # "none"
    /\ ValidJson(cache[k])
    /\ cache[k].ts = last_set[k].ts /\ cache[k].data = last_set[k].val

\* C30: with gets and sets of a key running concurrently, a step that removes
\* the entry written by a set that completed removes an entry that is itself
\* older than the TTL.
C30_ExpiryRemovesOnlyExpired ==
    [][\A k \in Keys :
          (WrittenByCompletedSet(k) /\ ~cache'[k].exists) =>
              now - cache[k].ts > ttl_hours]_vars

\* ------------------------------------------- overlapping requests
\* everything but the working directory, the service and the requests
nonreq == <<pc, inputs, start, chunk, retryvars, in_flight, abandoned, countvars,
            unsafe_at, gen_sleeps, temp_files, visionvars, final_result, exc,
            outcome, aggvars, yielded, jobs, ocr_ok, timed_out, computed, filevars,
            cachevars>>

InitOverlap ==
    /\ pc = "overlap"
    /\ valid_pdf = TRUE
    /\ total_pages = 0
    /\ max_chunk_pages = 1
    /\ max_text_size = 1
    /\ start = 0
    /\ chunk = 0
    /\ attempt = 0
    /\ outcomes = <<>>
    /\ waits = <<>>
    /\ last_wait = 0
    /\ in_flight = 0
    /\ abandoned = 0
    /\ processed_results = <<>>
    /\ chunks_processed = 0
    /\ n_dispatched = 0
    /\ n_none = 0
    /\ unsafe_at = 0
    /\ gen_sleeps = 0
    /\ temp_files = {}
    /\ temp_dir = FALSE
    /\ vision_temp_dir = FALSE
    /\ vision_failed = FALSE
    /\ final_result = NoResult
    /\ exc = "none"
    /\ outcome = "none"
    /\ log_exists = FALSE
    /\ log = <<>>
    /\ appended = <<>>
    /\ merged_results = NoMerged
    /\ saver_outcome = "none"
    /\ merged = NoList
    /\ yielded = <<>>
    /\ jobs = 0
    /\ ocr_ok = {}
    /\ timed_out = FALSE
    /\ ocr_service = "None"
    /\ req = [r \in Reqs |-> IdleReq]
    /\ computed = {}
    /\ FilesIdle
    /\ CacheIdle

\* routes.py 29-33, ocr.py 72: a request arrives; the first one creates the
\* global OCRService, whose __init__ makes the working directory; every
\* request then calls process_document on that one service
ReqStart(r) ==
    /\ pc = "overlap"
    /\ req[r].pc = "idle"
    /\ IF ocr_service = "None"
       THEN ocr_service' = "created" /\ temp_dir' = TRUE
       ELSE UNCHANGED <<ocr_service, temp_dir>>
    /\ req' = [req EXCEPT ![r].pc = "loop"]
    /\ UNCHANGED nonreq

\* ocr.py 277-289: the next chunk is written to a NamedTemporaryFile of its
\* own and the Document AI call is awaited
ReqChunk(r) ==
    /\ pc = "overlap"
    /\ req[r].pc = "loop"
    /\ req[r].n < MaxReqChunks
    /\ req' = [req EXCEPT ![r].pc = "chunk", ![r].temp_chunk = TRUE]
    /\ UNCHANGED <<nonreq, ocr_service, temp_dir>>

\* ocr.py 284, 294-308: the call is over, the with block deletes the file
ReqChunkDone(r) ==
    /\ pc = "overlap"
    /\ req[r].pc = "chunk"
    /\ req' = [req EXCEPT ![r].pc = "loop", ![r].temp_chunk = FALSE,
                          ![r].n = req[r].n + 1]
    /\ UNCHANGED <<nonreq, ocr_service, temp_dir>>

\* ocr.py 311, vision_service.py 56-97, 126: the loop is over;
\* analyze_document makes a directory of its own with mkdtemp, converts the
\* first page, removes the directory and awaits the Vision AI call
ReqVision(r) ==
    /\ pc = "overlap"
    /\ req[r].pc = "loop"
    /\ req' = [req EXCEPT ![r].pc = "vision"]
    /\ UNCHANGED <<nonreq, ocr_service, temp_dir>>

\* ocr.py 314-340, 101-108: the Vision AI call is over; merge, save and the
\* finally block follow without a suspension, and the finally block removes
\* the service's working directory
ReqFinish(r) ==
    /\ pc = "overlap"
    /\ req[r].pc = "vision"
    /\ temp_dir' = cleanup(temp_dir)
    /\ req' = [req EXCEPT ![r].pc = "done"]
    /\ UNCHANGED <<nonreq, ocr_service>>

NextOverlap ==
    \E r \in Reqs :
        \/ ReqStart(r) \/ ReqChunk(r) \/ ReqChunkDone(r)
        \/ ReqVision(r) \/ ReqFinish(r)

SpecOverlap == InitOverlap /\ [][NextOverlap]_vars

\* ---------------------------------------------------------------- C24
\* a request is inside process_document
Running(r) == req[r].pc \in {"loop", "chunk", "vision"}

\* C24: a job's cleanup removes nothing that a job still running uses: when
\* the working directory is removed, the only running job is the one whose
\* finally block removes it.  (The service is one global object, so
\* self.temp_dir is the working directory of every job.)
C24_PrivateTempStorage ==
    [][(temp_dir /\ ~temp_dir') =>
          \A q \in Reqs :
              Running(q) => (req[q].pc = "vision" /\ req'[q].pc = "done")]_vars

\* --------------------------------------------------------- cache keys
\* chunk contents (byte strings), document names and chunk indices of the
\* computations
Contents == {<<0>>, <<1>>, <<0, 1>>, <<1, 0>>}
Filenames == {"a.pdf", "b.pdf"}
ChunkIndices == 1..MaxReqChunks

\* hashlib.sha256(content): a digest folded over the bytes in order (one
\* byte wide here)
RECURSIVE sha256(_)
sha256(content) ==
    IF content = <<>> THEN 7
    ELSE (sha256(SubSeq(content, 1, Len(content) - 1)) * 31
            + content[Len(content)] + 1) % 256

\* .hexdigest(): the digest written as hexadecimal digits
HexDigits == <<"0", "1", "2", "3", "4", "5", "6", "7",
               "8", "9", "a", "b", "c", "d", "e", "f">>
hexdigest(d) == <<HexDigits[(d \div 16) + 1], HexDigits[(d % 16) + 1]>>

\* a key that also depends on the chunk index
get_hash_salted(content, env) ==
    hexdigest(sha256(content \o <<env.chunk_index>>))

\* cache_manager.py 23-25: _get_hash(content); env is everything else in
\* scope at the call: the document name, the chunk index and the time
get_hash(content, env) == hexdigest(sha256(content))

\* cache_manager.py 27-29: _get_cache_path(key)
get_cache_path(key) == <<"cache_dir">> \o key \o <<".json">>

\* one call of _get_hash followed by _get_cache_path, by any job at any time
ComputeKey(content, filename, chunk_index) ==
    /\ pc = "cache"
    /\ Cardinality(computed) < MaxComputed
    /\ LET env == [filename |-> filename, chunk_index |-> chunk_index, now |-> now]
           key == get_hash(content, env)
       IN computed' = computed \cup
             {[content |-> content, filename |-> filename,
               chunk_index |-> chunk_index, at |-> now,
               key |-> key, path |-> get_cache_path(key)]}
    /\ UNCHANGED <<jobvars, final_result, aggvars, cachevars,
                   yielded, jobs, ocr_ok, timed_out, ocr_service, req, filevars>>

NextKey ==
    \/ Tick
    \/ \E content \in Contents, filename \in Filenames, chunk_index \in ChunkIndices :
          ComputeKey(content, filename, chunk_index)

SpecKey == InitCache /\ [][NextKey]_vars

PartialLastLine ==
    log # <<>> /\ log[Len(log)].k # "\n"

\* document_saver.py 43-44: the process is killed while append_result
\* writes: only the first k tokens of json.dumps(result) + '\n' reach the
\* file, and the call never returns.  A file that already ends in a cut line
\* is not cut again.
AppendKilled(result, k) ==
    /\ pc = "agg"
    /\ Len(appended) < MaxLog
    /\ ~PartialLastLine
    /\ k \in 1..Len(json_dumps(result))
    /\ log_exists' = TRUE
    /\ log' = log \o SubSeq(json_dumps(result) \o <<Newline>>, 1, k)
    /\ UNCHANGED <<jobvars, svcvars, cachevars, final_result, appended,
                   merged_results, saver_outcome, merged>>

NextAggKill ==
    \/ NextAgg
    \/ \E result \in AggResults :
          \E k \in 1..Len(json_dumps(result)) : AppendKilled(result, k)

SpecAggKill == InitAgg /\ [][NextAggKill]_vars

\* ---------------------------------------------------------------- C31
\* C31: when save_final_results reads a log of one or more complete lines
\* followed by a partial one, it returns, having merged every line before
\* the partial one.
C31_PartialLastLineRecovered ==
    [][(save_final_results /\ PartialLastLine /\
        Len(SplitLines(log, <<>>)) > 1 /\
        \A i \in 1..(Len(SplitLines(log, <<>>)) - 1) :
            json_loads(SplitLines(log, <<>>)[i]).ok) =>
          /\ saver_outcome' = "returned"
          /\ merged_results'.chunks_processed = Len(SplitLines(log, <<>>)) - 1]_vars

\* ------------------------------------ DocumentSaver: the saved artifacts
\* document_saver.py 30: datetime.now().strftime("%Y%m%d_%H%M%S"), the time
\* written to the second (the clock of this part ticks twice a second)
strftime(t) == ToString(t \div 2)

\* the file names passed to save_final_results, and the merged texts
SaveFilenames == {[dir |-> "", stem |-> "a", ext |-> ".pdf"],
                  [dir |-> "uploads", stem |-> "a", ext |-> ".pdf"],
                  [dir |-> "", stem |-> "b", ext |-> ".pdf"]}
SaveTexts == {<<1>>, <<2>>}

\* document_saver.py 59: os.path.splitext(os.path.basename(filename))[0]
base_name_of(filename) == filename.stem

\* document_saver.py 28-33, 61-65: the three paths under
\* base_path/<timestamp>/
result_paths_of(filename, t) ==
    [kind \in {"json", "text", "summary"} |->
        <<"documents", strftime(t),
          <<base_name_of(filename),
            CASE kind = "json" -> "_results.json"
              [] kind = "text" -> "_text.txt"
              [] kind = "summary" -> "_summary.txt">> >>]

\* open(path, mode='w') + write: the file at path now holds content
open_w(fs, path, content) ==
    {f \in fs : f.path # path} \cup {[path |-> path, content |-> content]}

\* document_saver.py 85, 89, 92-99: what each artifact holds
artifact(kind, filename, text) ==
    CASE kind = "json" -> <<"json", text>>
      [] kind = "text" -> <<"text", text>>
      [] kind = "summary" -> <<"summary", filename, Len(text)>>

nonsave == <<jobvars, final_result, aggvars, cachevars, yielded, jobs, ocr_ok,
             timed_out, ocr_service, req, computed, splitter, download>>

\* document_saver.py 58-76: the call makes its timestamp directory, computes
\* its paths and opens temp_file
SaveBegin(j, filename, text) ==
    /\ pc = "cache"
    /\ saves[j].pc = "idle"
    /\ saves' = [saves EXCEPT ![j] =
                    [pc |-> "read", filename |-> filename, text |-> text,
                     result_paths |-> result_paths_of(filename, now)]]
    /\ UNCHANGED <<nonsave, documents>>

\* document_saver.py 76-81, 107-109: temp_file is missing or a line does not
\* decode: the error is re-raised, nothing is written
SaveReadFails(j) ==
    /\ pc = "cache"
    /\ saves[j].pc = "read"
    /\ saves' = [saves EXCEPT ![j].pc = "raised"]
    /\ UNCHANGED <<nonsave, documents>>

\* document_saver.py 76-85: the lines are merged and the JSON artifact is
\* written
SaveWriteJson(j) ==
    /\ pc = "cache"
    /\ saves[j].pc = "read"
    /\ documents' = open_w(documents, saves[j].result_paths["json"],
                           artifact("json", saves[j].filename, saves[j].text))
    /\ saves' = [saves EXCEPT ![j].pc = "json"]
    /\ UNCHANGED nonsave

\* document_saver.py 88-89
SaveWriteText(j) ==
    /\ pc = "cache"
    /\ saves[j].pc = "json"
    /\ documents' = open_w(documents, saves[j].result_paths["text"],
                           artifact("text", saves[j].filename, saves[j].text))
    /\ saves' = [saves EXCEPT ![j].pc = "text"]
    /\ UNCHANGED nonsave

\* document_saver.py 92-105: the summary is written and the paths returned
SaveWriteSummary(j) ==
    /\ pc = "cache"
    /\ saves[j].pc = "text"
    /\ documents' = open_w(documents, saves[j].result_paths["summary"],
                           artifact("summary", saves[j].filename, saves[j].text))
    /\ saves' = [saves EXCEPT ![j].pc = "returned"]
    /\ UNCHANGED nonsave

NextSave ==
    \/ Tick
    \/ \E j \in Savers :
          \/ \E filename \in SaveFilenames, text \in SaveTexts :
                SaveBegin(j, filename, text)
          \/ SaveReadFails(j)
          \/ SaveWriteJson(j)
          \/ SaveWriteText(j)
          \/ SaveWriteSummary(j)

SpecSave == InitCache /\ [][NextSave]_vars

\* ---------------------------------------------------------------- C32
\* the paths a call returned
PathsOf(j) == {saves[j].result_paths[kind] : kind \in {"json", "text", "summary"}}

\* C32: two calls of save_final_results that returned have disjoint artifact
\* paths, and every artifact of a call that returned holds what that call
\* wrote.
C32_ArtifactsNeverOverwritten ==
    \A i \in Savers :
        saves[i].pc = "returned" =>
            /\ \A kind \in {"json", "text", "summary"} :
                   [path |-> saves[i].result_paths[kind],
                    content |-> artifact(kind, saves[i].filename, saves[i].text)]
                       \in documents
            /\ \A j \in Savers \ {i} :
                   saves[j].pc = "returned" => PathsOf(i) \cap PathsOf(j) = {}

\* ---------------------------------------------------------------- C33
\* the position of the first result at which the concatenated text reaches
\* cap characters; the length of the list when it never does
CapReachedAt(results, cap) ==
    LET reached == {k \in 1..Len(results) :
                       Len(FlatText(SubSeq(results, 1, k))) >= cap}
    IN IF reached = {} THEN Len(results)
       ELSE CHOOSE k \in reached : \A m \in reached : k <= m

\* C33: _safe_merge_results returns as text the first min(total length,
\* max_text_size) characters of the concatenation of the chunk texts in list
\* order, and as pages the pages of the results up to and including the one
\* at which the cap was reached (all of them when it is never reached).
C33_MergeCapsText ==
    [][MergeList =>
          LET all == FlatText(appended)
              k == CapReachedAt(appended, max_text_size)
          IN /\ merged'.text = SubSeq(all, 1, Min(Len(all), max_text_size))
             /\ Len(merged'.text) <= max_text_size
             /\ merged'.pages = FlatPages(SubSeq(appended, 1, k))]_vars

\* a list of three results was merged: the text was cut inside the second
\* result, whose pages are all kept, and the third result gave nothing
C33_Witness ==
    /\ Len(appended) = 3
    /\ merged.total_chunks = 3
    /\ Len(appended[1].text) < max_text_size
    /\ Len(FlatText(SubSeq(appended, 1, 2))) > max_text_size
    /\ merged.text = SubSeq(FlatText(appended), 1, max_text_size)
    /\ merged.pages = FlatPages(SubSeq(appended, 1, 2))

\* ------------------------------------------------ PDFSplitter.split_pdf
nonsplit == <<jobvars, final_result, aggvars, cachevars, yielded, jobs, ocr_ok,
              timed_out, ocr_service, req, computed, documents, saves, download>>

InitSplit ==
    /\ pc = "split"
    /\ valid_pdf = TRUE
    /\ total_pages = 0
    /\ max_chunk_pages = 1
    /\ max_text_size = 1
    /\ start = 0
    /\ chunk = 0
    /\ attempt = 0
    /\ outcomes = <<>>
    /\ waits = <<>>
    /\ last_wait = 0
    /\ in_flight = 0
    /\ abandoned = 0
    /\ processed_results = <<>>
    /\ chunks_processed = 0
    /\ n_dispatched = 0
    /\ n_none = 0
    /\ unsafe_at = 0
    /\ gen_sleeps = 0
    /\ temp_files = {}
    /\ temp_dir = TRUE
    /\ vision_temp_dir = FALSE
    /\ vision_failed = FALSE
    /\ final_result = NoResult
    /\ exc = "none"
    /\ outcome = "none"
    /\ log_exists = FALSE
    /\ log = <<>>
    /\ appended = <<>>
    /\ merged_results = NoMerged
    /\ saver_outcome = "none"
    /\ merged = NoList
    /\ SvcIdle
    /\ CacheIdle

\* the generator has finished: exhausted, raised, or closed by its consumer
SplitFinished == {"exhausted", "raised", "closed"}

\* pdf_splitter.py 120-129: the finally block removes temp_input
SplitFinally(sp, how) == [sp EXCEPT !.pc = how, !.input = FALSE]

\* pdf_splitter.py 12-14, 53-65: split_pdf is called on a splitter of
\* max_pages_per_chunk = M; the content is written to temp_input, then the
\* generator sleeps
SplitStart(M) ==
    /\ pc = "split"
    /\ splitter.pc \in {"idle"} \cup SplitFinished
    /\ splitter.calls < MaxSplits
    /\ splitter' = [splitter EXCEPT !.pc = "written",
                                    !.calls = splitter.calls + 1,
                                    !.max_pages_per_chunk =
                                        IF splitter.pc = "idle" THEN M
                                        ELSE splitter.max_pages_per_chunk,
                                    !.total_pages = 0, !.start_page = 0,
                                    !.input = TRUE]
    /\ UNCHANGED nonsplit

\* pdf_splitter.py 68-69: PdfReader reads temp_input: P pages
SplitRead(P) ==
    /\ pc = "split"
    /\ splitter.pc = "written"
    /\ splitter' = [splitter EXCEPT !.pc = "loop", !.total_pages = P]
    /\ UNCHANGED nonsplit

\* pdf_splitter.py 68, 116-129: PdfReader raises on a malformed file
SplitReadFails ==
    /\ pc = "split"
    /\ splitter.pc = "written"
    /\ splitter' = SplitFinally(splitter, "raised")
    /\ UNCHANGED nonsplit

\* pdf_splitter.py 72-95: the next chunk is written to a NamedTemporaryFile
\* (delete=False), read back and yielded
SplitYield ==
    /\ pc = "split"
    /\ splitter.pc = "loop"
    /\ splitter.start_page < splitter.total_pages
    /\ splitter' = [splitter EXCEPT !.pc = "yielded",
                                    !.made = splitter.made + 1,
                                    !.chunks = splitter.chunks \cup {splitter.made + 1}]
    /\ UNCHANGED nonsplit

\* pdf_splitter.py 78-91, 109-129: building the chunk raises, either before
\* its temp file is created (add_page) or after (writer.write, read)
SplitBuildFails(file_created) ==
    /\ pc = "split"
    /\ splitter.pc = "loop"
    /\ splitter.start_page < splitter.total_pages
    /\ splitter' =
          IF file_created
          THEN SplitFinally([splitter EXCEPT
                                !.made = splitter.made + 1,
                                !.chunks = splitter.chunks \cup {splitter.made + 1}],
                            "raised")
          ELSE SplitFinally(splitter, "raised")
    /\ UNCHANGED nonsplit

\* pdf_splitter.py 98-107, 72: the consumer asks for the next chunk: the
\* chunk's temp file is unlinked and the loop goes on
SplitResume ==
    /\ pc = "split"
    /\ splitter.pc = "yielded"
    /\ splitter' = [splitter EXCEPT
                        !.pc = "loop",
                        !.chunks = splitter.chunks \ {splitter.made},
                        !.start_page = splitter.start_page + splitter.max_pages_per_chunk]
    /\ UNCHANGED nonsplit

\* pdf_splitter.py 95, 109, 116, 120-129: the consumer stops iterating and
\* the generator is closed: GeneratorExit is raised at the yield, passes both
\* `except Exception` clauses, and the finally block runs
SplitClose ==
    /\ pc = "split"
    /\ splitter.pc = "yielded"
    /\ splitter' = SplitFinally(splitter, "closed")
    /\ UNCHANGED nonsplit

\* pdf_splitter.py 72, 113-114, 120-129: the range is exhausted
SplitExhausted ==
    /\ pc = "split"
    /\ splitter.pc = "loop"
    /\ splitter.start_page >= splitter.total_pages
    /\ splitter' = SplitFinally(splitter, "exhausted")
    /\ UNCHANGED nonsplit

NextSplit ==
    \/ \E M \in 1..MaxChunkPages : SplitStart(M)
    \/ \E P \in 0..MaxPages : SplitRead(P)
    \/ SplitReadFails
    \/ SplitYield
    \/ \E file_created \in BOOLEAN : SplitBuildFails(file_created)
    \/ SplitResume
    \/ SplitClose
    \/ SplitExhausted

SpecSplit == InitSplit /\ [][NextSplit]_vars

\* ---------------------------------------------------------------- C34
\* C34: once the generator has finished, for whatever reason, neither the
\* input temp file nor any chunk temp file is left in the splitter's temp
\* directory.
C34_NoTempFileLeft ==
    splitter.pc \in SplitFinished =>
        ~splitter.input /\ splitter.chunks = {}

\* -------------------------------------------------------- download_file
\* Paths are sequences of segments.  The process runs in /app; the
\* directories and the files on the disk:
Cwd == <<"app">>
Dirs == {<<>>, <<"app">>, <<"app", "documents">>,
         <<"app", "documents", "20240101">>, <<"app", "documents_backup">>}
Files == {<<"app", "documents", "20240101", "a_text.txt">>,
          <<"app", "documents_backup", "old.txt">>,
          <<"app", "secret.env">>}

\* routes.py 12: DOCUMENTS_DIR = Path("documents")
DOCUMENTS_DIR == [abs |-> FALSE, segs |-> <<"documents">>]

\* the segments a request may be made of
SegmentNames == {"..", "app", "documents", "20240101", "a_text.txt",
                 "documents_backup", "old.txt", "secret.env"}

\* Path.__truediv__: an absolute right operand replaces the left one
PathJoin(a, b) ==
    IF b.abs THEN b ELSE [abs |-> a.abs, segs |-> a.segs \o b.segs]

\* Path.absolute(): the working directory is put in front of a relative
\* path; '..' segments are kept as they are
absolute(path) ==
    IF path.abs THEN path ELSE [abs |-> TRUE, segs |-> Cwd \o path.segs]

\* the characters of a file name, in pieces: "documents_backup" begins with
\* the characters of "documents"
NameChars(name) ==
    IF name = "documents_backup" THEN <<"documents", "_backup">> ELSE <<name>>

\* str(path) of an absolute path: "/" and the name of every segment
RECURSIVE str(_)
str(segs) ==
    IF segs = <<>> THEN <<>>
    ELSE <<"/">> \o NameChars(Head(segs)) \o str(Tail(segs))

\* str.startswith
startswith(text, prefix) == IsPrefix(prefix, text)

\* what the operating system finds at a path: it walks the segments from the
\* root, '..' going to the parent of a directory; ok is FALSE when a segment
\* does not exist
RECURSIVE Walk(_, _)
Walk(cur, segs) ==
    IF segs = <<>> THEN [ok |-> cur \in Dirs \cup Files, at |-> cur]
    ELSE IF cur \notin Dirs THEN [ok |-> FALSE, at |-> <<>>]
    ELSE IF Head(segs) = ".."
         THEN Walk(IF cur = <<>> THEN <<>> ELSE SubSeq(cur, 1, Len(cur) - 1),
                   Tail(segs))
         ELSE Walk(Append(cur, Head(segs)), Tail(segs))

Resolve(path) == Walk(<<>>, absolute(path).segs)

\* routes.py 92: str(full_path.absolute()).startswith(str(DOCUMENTS_DIR.absolute()))
check_inside(full_path) ==
    startswith(str(absolute(full_path).segs), str(absolute(DOCUMENTS_DIR).segs))

\* routes.py 81-116: the response to GET /download/{file_path}
download_file(file_path) ==
    LET full_path == PathJoin(DOCUMENTS_DIR, file_path)
        found == Resolve(full_path)
    IN IF ~found.ok
       THEN [file_path |-> file_path, status |-> 404, served |-> <<>>]
       ELSE IF ~check_inside(full_path)
       THEN [file_path |-> file_path, status |-> 403, served |-> <<>>]
       ELSE IF found.at \in Files
       THEN [file_path |-> file_path, status |-> 200, served |-> found.at]
       ELSE [file_path |-> file_path, status |-> 500, served |-> <<>>]

\* the requested paths: up to MaxPathLen segments, with or without a
\* leading "/"
RequestedPaths ==
    [abs : BOOLEAN,
     segs : UNION {[1..n -> SegmentNames] : n \in 0..MaxPathLen}]

InitDownload ==
    /\ pc = "download"
    /\ valid_pdf = TRUE
    /\ total_pages = 0
    /\ max_chunk_pages = 1
    /\ max_text_size = 1
    /\ start = 0
    /\ chunk = 0
    /\ attempt = 0
    /\ outcomes = <<>>
    /\ waits = <<>>
    /\ last_wait = 0
    /\ in_flight = 0
    /\ abandoned = 0
    /\ processed_results = <<>>
    /\ chunks_processed = 0
    /\ n_dispatched = 0
    /\ n_none = 0
    /\ unsafe_at = 0
    /\ gen_sleeps = 0
    /\ temp_files = {}
    /\ temp_dir = TRUE
    /\ vision_temp_dir = FALSE
    /\ vision_failed = FALSE
    /\ final_result = NoResult
    /\ exc = "none"
    /\ outcome = "none"
    /\ log_exists = FALSE
    /\ log = <<>>
    /\ appended = <<>>
    /\ merged_results = NoMerged
    /\ saver_outcome = "none"
    /\ merged = NoList
    /\ SvcIdle
    /\ CacheIdle

\* one request to /download/{file_path}
DownloadFile(file_path) ==
    /\ pc = "download"
    /\ download' = download_file(file_path)
    /\ UNCHANGED <<jobvars, final_result, aggvars, cachevars, yielded, jobs,
                   ocr_ok, timed_out, ocr_service, req, computed, documents,
                   saves, splitter>>

NextDownload == \E file_path \in RequestedPaths : DownloadFile(file_path)

SpecDownload == InitDownload /\ [][NextDownload]_vars

\* ---------------------------------------------------------------- C35
\* C35: the file a download request returns is inside the documents
\* directory.
C35_OnlyServesDocuments ==
    download.served # <<>> =>
        LET dir == absolute(DOCUMENTS_DIR).segs
        IN /\ Len(download.served) > Len(dir)
           /\ SubSeq(download.served, 1, Len(dir)) = dir

====
